---- MODULE Spec2Model ----
(***************************************************************************)
(* Model of the task endpoints of the personal-assistant backend           *)
(* (app/api/tasks.py over the tables of app/db/models.py).                 *)
(*                                                                         *)
(* Dates are day numbers (day 0 is a Monday).  A datetime is               *)
(* day * TicksPerDay + tick, tick 0 being 00:00:00 and tick                *)
(* TicksPerDay - 1 being 23:59:59.999999.  Titles are sequences of         *)
(* character codes so that str.lower() and string comparison are computed. *)
(* The notes column is carried through unchanged by the code and is left   *)
(* out of the records.                                                     *)
(***************************************************************************)
EXTENDS Integers, Sequences, FiniteSets, TLC

VARIABLES tasks, completions, pending, resp, kfiles, kitems, kchunks, clock,
          chunking

vars == <<tasks, completions, pending, resp, kfiles, kitems, kchunks, clock,
          chunking>>

\* The task tables and the requests in flight on them
tvars == <<tasks, completions, pending>>

\* The knowledge directory, the knowledge tables, the server's clock and the
\* chunk requests in flight
kvars == <<kfiles, kitems, kchunks, clock, chunking>>

----------------------------------------------------------------------------
(* Bounds of the model *)

MaxTasks == 2
MaxCompletions == 1
MaxDay == 1
MaxPriority == 2
MaxClock == 4

----------------------------------------------------------------------------
(* Values *)

DEFAULT_USER_ID == "default"

NoDate == -1
NoRule == "<None>"
EmptyRule == ""

\* The days that requests name: the first and the last day of the range
Dates == {0, MaxDay}
Priorities == 1..MaxPriority
DefaultPriority == 3

TitleUpperB == <<66>>
TitleLowerA == <<97>>
Titles == {TitleUpperB, TitleLowerA}

RuleDaily == "FREQ=DAILY"
RuleEveryOtherNoon == "FREQ=DAILY;INTERVAL=2;BYHOUR=12"
RuleMalformed == "FREQ=SOMETIMES"
ValidRules == {RuleDaily, RuleEveryOtherNoon}
Rules == ValidRules \cup {RuleMalformed}

Reqs == {1, 2}
NoArgs == [task_id |-> 0, occurrence_date |-> NoDate]

TicksPerDay == 3
DefaultDays == 14
MinDays == 1
MaxDays == 365
DaysInputs == {2}

Min(a, b) == IF a <= b THEN a ELSE b

----------------------------------------------------------------------------
(* Responses of the handlers *)

NoResp ==
    [op |-> "none", status |-> 0, already |-> FALSE, task_id |-> 0,
     occurrence_date |-> NoDate, start |-> NoDate, end |-> NoDate,
     hide_done |-> FALSE, items |-> <<>>]

CreatedResp(id) ==
    [NoResp EXCEPT !.op = "create", !.status = 200, !.task_id = id]

CompleteResp(status, already, task_id, d) ==
    [NoResp EXCEPT !.op = "complete", !.status = status, !.already = already,
                   !.task_id = task_id, !.occurrence_date = d]

WindowResp(start, end, hide_done, items) ==
    [NoResp EXCEPT !.op = "window", !.status = 200, !.start = start,
                   !.end = end, !.hide_done = hide_done, !.items = items]

----------------------------------------------------------------------------
(* create_task *)

TaskCreate ==
    [title : Titles, priority : Priorities \cup {DefaultPriority},
     due_date : Dates \cup {NoDate},
     rrule : Rules \cup {NoRule, EmptyRule},
     start_date : Dates \cup {NoDate}]

Truthy(rrule) == rrule # NoRule /\ rrule # EmptyRule

\* create_task that keeps the due date of the request on a recurring task
NewTask_KeepsDueDate(payload, today, id) ==
    LET is_recurring == Truthy(payload.rrule)
    IN  [id |-> id,
         user_id |-> DEFAULT_USER_ID,
         title |-> payload.title,
         priority |-> payload.priority,
         kind |-> IF is_recurring THEN "recurring" ELSE "one_off",
         due_date |-> IF payload.due_date # NoDate THEN payload.due_date
                      ELSE IF is_recurring THEN NoDate
                      ELSE IF payload.start_date # NoDate THEN payload.start_date
                      ELSE today,
         start_date |-> IF is_recurring
                        THEN (IF payload.start_date # NoDate
                              THEN payload.start_date ELSE today)
                        ELSE NoDate,
         rrule |-> IF is_recurring THEN payload.rrule ELSE NoRule]

NewTask(payload, today, id) ==
    LET is_recurring == Truthy(payload.rrule)
    IN  [id |-> id,
         user_id |-> DEFAULT_USER_ID,
         title |-> payload.title,
         priority |-> payload.priority,
         kind |-> IF is_recurring THEN "recurring" ELSE "one_off",
         due_date |-> IF is_recurring THEN NoDate
                      ELSE IF payload.due_date # NoDate THEN payload.due_date
                      ELSE IF payload.start_date # NoDate THEN payload.start_date
                      ELSE today,
         start_date |-> IF is_recurring
                        THEN (IF payload.start_date # NoDate
                              THEN payload.start_date ELSE today)
                        ELSE NoDate,
         rrule |-> IF is_recurring THEN payload.rrule ELSE NoRule]

CreateTask(payload, today) ==
    /\ Len(tasks) < MaxTasks
    /\ LET task == NewTask(payload, today, Len(tasks) + 1)
       IN  /\ tasks' = Append(tasks, task)
           /\ resp' = CreatedResp(task.id)
    /\ UNCHANGED <<completions, pending, kvars>>

----------------------------------------------------------------------------
(* complete_occurrence *)

TaskFound(ts, task_id) ==
    /\ task_id \in 1..Len(ts)
    /\ ts[task_id].user_id = DEFAULT_USER_ID

\* the one-off check without the comparison of the date
OneOffDateRejected_AnyDate(task, d) ==
    /\ task.rrule = NoRule
    /\ task.due_date = NoDate

OneOffDateRejected(task, d) ==
    /\ task.rrule = NoRule
    /\ \/ task.due_date = NoDate
       \/ d # task.due_date

\* the existence check without the filter on the date
ExistingCompletion_AnyDate(cs, task_id, d) ==
    \E i \in 1..Len(cs) :
        /\ cs[i].task_id = task_id
        /\ cs[i].user_id = DEFAULT_USER_ID

\* the existence check that never finds a row
ExistingCompletion_Never(cs, task_id, d) == FALSE

ExistingCompletion(cs, task_id, d) ==
    \E i \in 1..Len(cs) :
        /\ cs[i].task_id = task_id
        /\ cs[i].occurrence_date = d
        /\ cs[i].user_id = DEFAULT_USER_ID

NewCompletion(cs, task_id, d) ==
    [id |-> Len(cs) + 1, user_id |-> DEFAULT_USER_ID,
     task_id |-> task_id, occurrence_date |-> d]

UniqueViolation(cs, row) ==
    \E i \in 1..Len(cs) :
        /\ cs[i].user_id = row.user_id
        /\ cs[i].task_id = row.task_id
        /\ cs[i].occurrence_date = row.occurrence_date

\* The part of the handler before the insert: "404", "400", "already" or
\* "insert" when the request goes on to add a row.
CompleteDecision(ts, cs, task_id, d) ==
    IF ~TaskFound(ts, task_id) THEN "404"
    ELSE IF OneOffDateRejected(ts[task_id], d) THEN "400"
    ELSE IF ExistingCompletion(cs, task_id, d) THEN "already"
    ELSE "insert"

\* db.add(comp); db.commit(): the commit raises IntegrityError (an unhandled
\* exception, HTTP 500) when uq_task_occurrence is violated.
InsertCompletion(task_id, d) ==
    LET row == NewCompletion(completions, task_id, d)
    IN  IF UniqueViolation(completions, row)
        THEN /\ resp' = CompleteResp(500, FALSE, task_id, d)
             /\ UNCHANGED completions
        ELSE /\ completions' = Append(completions, row)
             /\ resp' = CompleteResp(200, FALSE, task_id, d)

EarlyReturn(decision, task_id, d) ==
    /\ resp' = CASE decision = "404" -> CompleteResp(404, FALSE, task_id, d)
                 [] decision = "400" -> CompleteResp(400, FALSE, task_id, d)
                 [] OTHER -> CompleteResp(200, TRUE, task_id, d)
    /\ UNCHANGED completions

\* The table is kept to MaxCompletions rows: a request that would add a row
\* beyond that is not taken up.
HasRoom(task_id, d) ==
    \/ Len(completions) < MaxCompletions
    \/ UniqueViolation(completions, NewCompletion(completions, task_id, d))

\* One request handled from start to end with no other request in between.
CompleteOccurrence(task_id, d) ==
    /\ \A r \in Reqs : pending[r] = NoArgs
    /\ LET decision == CompleteDecision(tasks, completions, task_id, d)
       IN  IF decision = "insert"
           THEN /\ HasRoom(task_id, d)
                /\ InsertCompletion(task_id, d)
           ELSE EarlyReturn(decision, task_id, d)
    /\ UNCHANGED <<tasks, pending, kvars>>

\* The same handler as two steps of request r, for concurrent requests:
\* the reads up to the existence check, then the insert and commit.
CompleteCheck(r, task_id, d) ==
    /\ pending[r] = NoArgs
    /\ LET decision == CompleteDecision(tasks, completions, task_id, d)
       IN  IF decision = "insert"
           THEN /\ HasRoom(task_id, d)
                /\ pending' = [pending EXCEPT ![r] =
                                  [task_id |-> task_id, occurrence_date |-> d]]
                /\ UNCHANGED <<completions, resp>>
           ELSE /\ EarlyReturn(decision, task_id, d)
                /\ UNCHANGED pending
    /\ UNCHANGED <<tasks, kvars>>

CompleteInsert(r) ==
    /\ pending[r] # NoArgs
    /\ InsertCompletion(pending[r].task_id, pending[r].occurrence_date)
    /\ pending' = [pending EXCEPT ![r] = NoArgs]
    /\ UNCHANGED <<tasks, kvars>>

----------------------------------------------------------------------------
(* Recurrence expansion: rrulestr(...) and rule.between(...) of dateutil,  *)
(* for the rule strings of Rules.                                          *)

Combine(d, tick) == d * TicksPerDay + tick
MinTime == 0
NoonTime == 1
MaxTime == TicksPerDay - 1
DateOf(dt) == dt \div TicksPerDay

RrulestrRaises(rrule) == rrule \notin ValidRules

\* dt is an occurrence of the parsed rule anchored at dtstart
IsOccurrence(rrule, dtstart, dt) ==
    /\ dt >= dtstart
    /\ CASE rrule = RuleDaily -> dt % TicksPerDay = MinTime
         [] rrule = RuleEveryOtherNoon ->
              /\ dt % TicksPerDay = NoonTime
              /\ (DateOf(dt) - DateOf(dtstart)) % 2 = 0
         [] OTHER -> FALSE

\* The occurrences of the rule from lo to hi, in ascending order, as the
\* rule's iterator yields them
RECURSIVE OccurrencesIn(_, _, _, _)
OccurrencesIn(rrule, dtstart, lo, hi) ==
    IF lo > hi THEN <<>>
    ELSE (IF IsOccurrence(rrule, dtstart, lo) THEN <<lo>> ELSE <<>>)
         \o OccurrencesIn(rrule, dtstart, lo + 1, hi)

\* between that runs to the end of the day after the window
Between_PastEnd(rrule, dtstart, after, before) ==
    OccurrencesIn(rrule, dtstart, after, before + TicksPerDay)

\* rule.between(after, before, inc=True): after <= dt <= before
Between(rrule, dtstart, after, before) ==
    OccurrencesIn(rrule, dtstart, after, before)

----------------------------------------------------------------------------
(* _window_tasks *)

DoneSet(cs, start, end) ==
    {<<cs[i].task_id, cs[i].occurrence_date>> :
        i \in {j \in 1..Len(cs) : /\ cs[j].occurrence_date >= start
                                  /\ cs[j].occurrence_date <= end
                                  /\ cs[j].user_id = DEFAULT_USER_ID}}

\* the one-off query with the end of the window excluded
OneOffQuery_EndExcluded(ts, start, end) ==
    LET Match(t) == /\ t.rrule = NoRule
                    /\ t.due_date # NoDate
                    /\ t.due_date >= start
                    /\ t.due_date < end
                    /\ t.user_id = DEFAULT_USER_ID
    IN  SelectSeq(ts, Match)

OneOffQuery(ts, start, end) ==
    LET Match(t) == /\ t.rrule = NoRule
                    /\ t.due_date # NoDate
                    /\ t.due_date >= start
                    /\ t.due_date <= end
                    /\ t.user_id = DEFAULT_USER_ID
    IN  SelectSeq(ts, Match)

RecurringQuery(ts, end) ==
    LET Match(t) == /\ t.rrule # NoRule
                    /\ t.start_date # NoDate
                    /\ t.start_date <= end
                    /\ t.user_id = DEFAULT_USER_ID
    IN  SelectSeq(ts, Match)

TaskOut(t, kind, d, is_done) ==
    [id |-> t.id, user_id |-> t.user_id, title |-> t.title, kind |-> kind,
     date |-> d, rrule |-> t.rrule, is_done |-> is_done,
     priority |-> t.priority]

\* the done test on the task alone
IsDone_AnyDate(done_set, id, d) == \E p \in done_set : p[1] = id

IsDone(done_set, id, d) == <<id, d>> \in done_set

RECURSIVE OneOffLoop(_, _, _)
OneOffLoop(one_off, done_set, hide_done) ==
    IF one_off = <<>> THEN <<>>
    ELSE LET t == Head(one_off)
             is_done == IsDone(done_set, t.id, t.due_date)
             rest == OneOffLoop(Tail(one_off), done_set, hide_done)
         IN  IF hide_done /\ is_done THEN rest
             ELSE <<TaskOut(t, "one_off", t.due_date, is_done)>> \o rest

RECURSIVE OccurrenceLoop(_, _, _, _)
OccurrenceLoop(t, occ, done_set, hide_done) ==
    IF occ = <<>> THEN <<>>
    ELSE LET od == DateOf(Head(occ))
             is_done == IsDone(done_set, t.id, od)
             rest == OccurrenceLoop(t, Tail(occ), done_set, hide_done)
         IN  IF hide_done /\ is_done THEN rest
             ELSE <<TaskOut(t, "recurring", od, is_done)>> \o rest

\* the loop with the try around it: the first rule that raises ends it
RECURSIVE RecurringLoop_Break(_, _, _, _, _)
RecurringLoop_Break(recurring, start, end, done_set, hide_done) ==
    IF recurring = <<>> THEN <<>>
    ELSE LET t == Head(recurring)
         IN  IF RrulestrRaises(t.rrule) THEN <<>>
             ELSE LET occ == Between(t.rrule,
                                     Combine(t.start_date, MinTime),
                                     Combine(start, MinTime),
                                     Combine(end, MaxTime))
                  IN  OccurrenceLoop(t, occ, done_set, hide_done)
                      \o RecurringLoop_Break(Tail(recurring), start, end,
                                             done_set, hide_done)

RECURSIVE RecurringLoop(_, _, _, _, _)
RecurringLoop(recurring, start, end, done_set, hide_done) ==
    IF recurring = <<>> THEN <<>>
    ELSE LET t == Head(recurring)
             rest == RecurringLoop(Tail(recurring), start, end, done_set,
                                   hide_done)
         IN  IF RrulestrRaises(t.rrule) THEN rest
             ELSE LET occ == Between(t.rrule,
                                     Combine(t.start_date, MinTime),
                                     Combine(start, MinTime),
                                     Combine(end, MaxTime))
                  IN  OccurrenceLoop(t, occ, done_set, hide_done) \o rest

Lower(title) ==
    [i \in 1..Len(title) |->
        IF title[i] \in 65..90 THEN title[i] + 32 ELSE title[i]]

\* Python's comparison of two strings
StrLess(s, t) ==
    \E i \in 1..(Min(Len(s), Len(t)) + 1) :
        /\ \A j \in 1..(i - 1) : s[j] = t[j]
        /\ \/ i > Len(s) /\ i <= Len(t)
           \/ i <= Len(s) /\ i <= Len(t) /\ s[i] < t[i]

\* the sort key with the title as written
SortKey_TitleAsWritten(x) == <<x.date, x.priority, x.title>>

SortKey(x) == <<x.date, x.priority, Lower(x.title)>>

\* Python's comparison of two key tuples
KeyLess(a, b) ==
    \/ a[1] < b[1]
    \/ a[1] = b[1] /\ a[2] < b[2]
    \/ a[1] = b[1] /\ a[2] = b[2] /\ StrLess(a[3], b[3])

\* list.sort(key=...): stable, so an item goes after the items already
\* placed that do not compare greater.
RECURSIVE InsertSorted(_, _)
InsertSorted(sorted, x) ==
    IF sorted = <<>> THEN <<x>>
    ELSE IF KeyLess(SortKey(x), SortKey(Head(sorted)))
         THEN <<x>> \o sorted
         ELSE <<Head(sorted)>> \o InsertSorted(Tail(sorted), x)

RECURSIVE SortResults(_)
SortResults(results) ==
    IF results = <<>> THEN <<>>
    ELSE InsertSorted(SortResults(SubSeq(results, 1, Len(results) - 1)),
                      results[Len(results)])

WindowTasks(ts, cs, start, end, hide_done) ==
    LET done_set == DoneSet(cs, start, end)
        one_off == OneOffQuery(ts, start, end)
        recurring == RecurringQuery(ts, end)
    IN  SortResults(OneOffLoop(one_off, done_set, hide_done)
                    \o RecurringLoop(recurring, start, end, done_set,
                                     hide_done))

WeekRangeSegDom(anchor) ==
    LET start == anchor - (anchor % 7)
    IN  <<start, start + 6>>

EffectiveDays(days) ==
    IF days < MinDays \/ days > MaxDays THEN DefaultDays ELSE days

Window(start, end, hide_done) ==
    /\ \A r \in Reqs : pending[r] = NoArgs
    /\ resp' = WindowResp(start, end, hide_done,
                          WindowTasks(tasks, completions, start, end,
                                      hide_done))
    /\ UNCHANGED <<tvars, kvars>>

\* date_ref or date.today(): the clock is read only without a date_ref
Anchors(date_ref) == IF date_ref # NoDate THEN {date_ref} ELSE Dates

TasksToday(date_ref, hide_done) ==
    \E anchor \in Anchors(date_ref) :
        Window(anchor, anchor, hide_done)

TasksWeek(date_ref, hide_done) ==
    \E anchor \in Anchors(date_ref) :
        LET range == WeekRangeSegDom(anchor)
        IN  Window(range[1], range[2], hide_done)

TasksNext(days, date_ref, hide_done) ==
    \E anchor \in Anchors(date_ref) :
        Window(anchor, anchor + EffectiveDays(days) - 1, hide_done)

----------------------------------------------------------------------------
(* The knowledge directory *)

RECURSIVE Concat(_)
\* "".join(parts)
Concat(parts) ==
    IF parts = <<>> THEN <<>>
    ELSE IF Len(parts) = 1 THEN parts[1]
    ELSE LET half == Len(parts) \div 2
         IN  Concat(SubSeq(parts, 1, half))
             \o Concat(SubSeq(parts, half + 1, Len(parts)))

RECURSIVE Join(_, _)
\* sep.join(parts)
Join(sep, parts) ==
    IF parts = <<>> THEN <<>>
    ELSE IF Len(parts) = 1 THEN parts[1]
    ELSE parts[1] \o sep \o Join(sep, Tail(parts))

\* Files under KNOWLEDGE_DIR, as the parts of their relative path: one in a
\* dated folder ("d/a.json") and one directly in the base ("b.json")
PathDated == <<<<100>>, <<97, 46, 106, 115, 111, 110>>>>
PathRoot == <<<<98, 46, 106, 115, 111, 110>>>>
Paths == {PathDated, PathRoot}

NoFolder == <<>>

\* fp.relative_to(base).as_posix()
RelPath(fp) == Join(<<47>>, fp)

\* fp.parent.name if fp.parent != base else None
FolderDate(fp) == IF Len(fp) > 1 THEN fp[Len(fp) - 1] ELSE NoFolder

\* What a path holds: nothing, a JSON object written in some layout, or text
\* that is not JSON. An object is a list of <<key, string value>> pairs.
NoFile == [kind |-> "none", obj |-> <<>>, layout |-> "none"]
MalformedFile == [kind |-> "malformed", obj |-> <<>>, layout |-> "none"]
JsonFile(obj, layout) == [kind |-> "json", obj |-> obj, layout |-> layout]

\* A request that is not inside make_chunks
NoChunking == [pc |-> "idle", item_id |-> 0, chunks |-> <<>>, deleted |-> 0]

NoDir == [exists |-> FALSE, files |-> [fp \in Paths |-> NoFile]]

----------------------------------------------------------------------------

Init ==
    /\ tasks = <<>>
    /\ completions = <<>>
    /\ pending = [r \in Reqs |-> NoArgs]
    /\ resp = NoResp
    /\ kfiles = NoDir
    /\ kitems = <<>>
    /\ kchunks = <<>>
    /\ clock = 0
    /\ chunking = [r \in Reqs |-> NoChunking]

TaskIds == 1..(MaxTasks + 1)
DateRefs == Dates \cup {NoDate}

\* Requests that leave priority at its default and use one title
PlainTaskCreate ==
    {p \in TaskCreate : p.title = TitleLowerA /\ p.priority = DefaultPriority}

\* Plain requests for one-off tasks, tasks recurring every other day and
\* tasks with a malformed rule
WindowTaskCreate ==
    {p \in PlainTaskCreate :
        p.rrule \in {NoRule, RuleEveryOtherNoon, RuleMalformed}}

\* Requests with every title and priority: one-off tasks due on any date
\* and tasks recurring daily from day 0
SortTaskCreate ==
    {p \in TaskCreate :
        /\ p.priority \in Priorities
        /\ \/ p.rrule = NoRule /\ p.due_date # NoDate /\ p.start_date = NoDate
           \/ p.rrule = RuleDaily /\ p.due_date = NoDate /\ p.start_date = 0}

Queries ==
    \/ \E date_ref \in DateRefs, hide_done \in BOOLEAN :
           TasksToday(date_ref, hide_done)
    \/ \E date_ref \in DateRefs, hide_done \in BOOLEAN :
           TasksWeek(date_ref, hide_done)
    \/ \E days \in DaysInputs, date_ref \in DateRefs, hide_done \in BOOLEAN :
           TasksNext(days, date_ref, hide_done)

Next ==
    \/ \E payload \in PlainTaskCreate, today \in Dates :
           CreateTask(payload, today)
    \/ \E task_id \in TaskIds, d \in Dates : CompleteOccurrence(task_id, d)

NextConc ==
    \/ \E payload \in PlainTaskCreate, today \in Dates :
           CreateTask(payload, today)
    \/ \E r \in Reqs, task_id \in TaskIds, d \in Dates :
           CompleteCheck(r, task_id, d)
    \/ \E r \in Reqs : CompleteInsert(r)

NextWindow ==
    \/ \E payload \in WindowTaskCreate, today \in Dates :
           CreateTask(payload, today)
    \/ \E task_id \in TaskIds, d \in Dates : CompleteOccurrence(task_id, d)
    \/ Queries

NextSort ==
    \/ \E payload \in SortTaskCreate, today \in Dates :
           CreateTask(payload, today)
    \/ CompleteOccurrence(1, 0)
    \/ \E date_ref \in DateRefs, hide_done \in BOOLEAN :
           TasksWeek(date_ref, hide_done)

\* create_task and complete_occurrence, one request at a time
Spec == Init /\ [][Next]_vars

\* create_task and concurrent complete_occurrence requests
SpecConc == Init /\ [][NextConc]_vars

\* create_task, complete_occurrence and the window queries
SpecWindow == Init /\ [][NextWindow]_vars

\* the week query over tasks of every title and priority
SpecSort == Init /\ [][NextSort]_vars

----------------------------------------------------------------------------
(* Limits of the listing endpoints *)

ListDefault == 50
ListMax == 500
SearchDefault == 10
SearchMax == 50
EmbedDefault == 200
EmbedMax == 2000
SemanticDefault == 5
SemanticMax == 25
PreviewMax == 10

Max(a, b) == IF a > b THEN a ELSE b

\* The limit an endpoint applies when it is sent this one
EffectiveLimit(endpoint, requested) ==
    CASE endpoint = "tasks_next" -> EffectiveDays(requested)
      \* list_items: if limit < 1 or limit > 500: limit = 50
      [] endpoint = "list_items" ->
           IF requested < 1 \/ requested > ListMax THEN ListDefault
           ELSE requested
      \* search: if limit < 1 or limit > 50: limit = 10
      [] endpoint = "search" ->
           IF requested < 1 \/ requested > SearchMax THEN SearchDefault
           ELSE requested
      \* embed_chunks: if limit < 1 or limit > 2000: limit = 200
      [] endpoint = "embed_chunks" ->
           IF requested < 1 \/ requested > EmbedMax THEN EmbedDefault
           ELSE requested
      \* semantic_search: if k < 1 or k > 25: k = 5
      [] endpoint = "semantic_search" ->
           IF requested < 1 \/ requested > SemanticMax THEN SemanticDefault
           ELSE requested
      \* preview: max(1, min(payload.limit, 10))
      [] endpoint = "preview" -> Max(1, Min(requested, PreviewMax))

Endpoints ==
    {"tasks_next", "list_items", "search", "embed_chunks", "semantic_search",
     "preview"}

\* The limits a client may send: the edges of every endpoint's range
LimitInputs ==
    {-1, 0, 1, 2, 5, 10, 11, 14, 25, 26, 50, 51, 200, 365, 366, 500, 501,
     2000, 2001}

\* An endpoint takes a limit: it answers with the limit it applies, never
\* with an error
LimitCall(endpoint, requested) ==
    /\ resp' = [op |-> "limit", status |-> 200, endpoint |-> endpoint,
                requested |-> requested,
                limit |-> EffectiveLimit(endpoint, requested)]
    /\ UNCHANGED <<tvars, kvars>>

NextLimits ==
    \E endpoint \in Endpoints, requested \in LimitInputs :
        LimitCall(endpoint, requested)

\* the limit every listing endpoint applies to the limit it was sent
SpecLimits == Init /\ [][NextLimits]_vars

----------------------------------------------------------------------------
(* chunk_text *)

\* Strings are sequences of code points; these are white space to str.strip()
IsSpace(c) == c \in {9, 10, 11, 12, 13, 28, 29, 30, 31, 32}

\* str.strip(): s without the white space it begins and ends with
Strip(s) ==
    LET leading == Cardinality({p \in 1..Len(s) :
                                   \A q \in 1..p : IsSpace(s[q])})
        trailing == Cardinality({p \in 1..Len(s) :
                                    \A q \in p..Len(s) : IsSpace(s[q])})
    IN  SubSeq(s, leading + 1, Len(s) - trailing)

\* text[i:j]
Slice(s, i, j) == SubSeq(s, i + 1, j)

DefaultChunkSize == 1100
DefaultOverlap == 180
MinChunkSize == 200

\* chunk_text that lets the overlap be as large as the window
ChunkStart_OverlapIsWindow(text, chunk_size, overlap) ==
    LET stripped == Strip(text)
        size == IF chunk_size < MinChunkSize THEN MinChunkSize ELSE chunk_size
        over0 == IF overlap < 0 THEN 0 ELSE overlap
        over == IF over0 > size THEN Max(0, size \div 4) ELSE over0
    IN  [text |-> stripped, chunk_size |-> size, overlap |-> over,
         chunks |-> <<>>, i |-> 0, n |-> Len(stripped),
         pc |-> IF stripped = <<>> THEN "done" ELSE "loop"]

\* chunk_text up to its loop: the guards on the text, the window and the overlap
ChunkStart(text, chunk_size, overlap) ==
    LET stripped == Strip(text)
        size == IF chunk_size < MinChunkSize THEN MinChunkSize ELSE chunk_size
        over0 == IF overlap < 0 THEN 0 ELSE overlap
        over == IF over0 >= size THEN Max(0, size \div 4) ELSE over0
    IN  [text |-> stripped, chunk_size |-> size, overlap |-> over,
         chunks |-> <<>>, i |-> 0, n |-> Len(stripped),
         pc |-> IF stripped = <<>> THEN "done" ELSE "loop"]

\* chunk_text whose next window starts where the last one ended
ChunkIterate_NoOverlap(st) ==
    LET j == Min(st.n, st.i + st.chunk_size)
        chunk == Strip(Slice(st.text, st.i, j))
        chunks == IF chunk # <<>> THEN Append(st.chunks, chunk) ELSE st.chunks
    IN  IF j = st.n
        THEN [st EXCEPT !.chunks = chunks, !.pc = "done"]
        ELSE [st EXCEPT !.chunks = chunks, !.i = j,
                        !.pc = IF j < st.n THEN "loop" ELSE "done"]

\* One iteration of the loop of chunk_text
ChunkIterate(st) ==
    LET j == Min(st.n, st.i + st.chunk_size)
        chunk == Strip(Slice(st.text, st.i, j))
        chunks == IF chunk # <<>> THEN Append(st.chunks, chunk) ELSE st.chunks
    IN  IF j = st.n
        THEN [st EXCEPT !.chunks = chunks, !.pc = "done"]
        ELSE [st EXCEPT !.chunks = chunks, !.i = j - st.overlap,
                        !.pc = IF j - st.overlap < st.n THEN "loop"
                               ELSE "done"]

RECURSIVE ChunkLoop(_)
ChunkLoop(st) == IF st.pc = "done" THEN st.chunks ELSE ChunkLoop(ChunkIterate(st))

\* chunk_text(text, chunk_size, overlap)
ChunkText(text, chunk_size, overlap) ==
    ChunkLoop(ChunkStart(text, chunk_size, overlap))

\* A text of n characters, all different, but for white space at a..b
Text(n, a, b) == [p \in 1..n |-> IF a <= p /\ p <= b THEN 32 ELSE 1000 + p]

\* The calls: texts at the edges of the windows (empty, blank, one window,
\* one character more, two windows, white space at the start of a window or
\* filling one) with <<chunk_size, overlap>> at the defaults, under the
\* minimum, below zero, equal to the window and above it; the short texts
\* also with windows that advance one character at a time
ChunkCalls ==
    LET short == {Text(0, 0, 0), Text(3, 1, 3), Text(1, 0, 0),
                  Text(200, 0, 0), Text(201, 0, 0), Text(204, 1, 4),
                  Text(210, 0, 0)}
        long == {Text(600, 201, 400), Text(1100, 0, 0), Text(1101, 0, 0),
                 Text(2000, 0, 0), Text(2000, 921, 925)}
        params == {<<DefaultChunkSize, DefaultOverlap>>,
                   <<DefaultChunkSize, DefaultChunkSize>>,
                   <<DefaultChunkSize, -1>>, <<MinChunkSize, 0>>,
                   <<MinChunkSize, MinChunkSize>>, <<199, 50>>, <<100, 300>>,
                   <<-5, -5>>, <<0, 0>>}
        slow == {<<MinChunkSize, 199>>, <<201, 200>>}
    IN  ((short \cup long) \X params) \cup (short \X slow)

\* A call of chunk_text is in its loop
InChunkLoop == resp.op = "chunk_text" /\ resp.st.pc = "loop"

ChunkTextCall(text, chunk_size, overlap) ==
    /\ ~InChunkLoop
    /\ resp' = [op |-> "chunk_text", status |-> 200, text |-> text,
                chunk_size |-> chunk_size, overlap |-> overlap,
                st |-> ChunkStart(text, chunk_size, overlap)]
    /\ UNCHANGED <<tvars, kvars>>

ChunkTextStep ==
    /\ InChunkLoop
    /\ resp' = [resp EXCEPT !.st = ChunkIterate(@)]
    /\ UNCHANGED <<tvars, kvars>>

NextChunk ==
    \/ \E call \in ChunkCalls : ChunkTextCall(call[1], call[2][1], call[2][2])
    \/ ChunkTextStep

\* chunk_text, one iteration of its loop at a time
SpecChunk == Init /\ [][NextChunk]_vars

\* chunk_text when the running call is never suspended for ever
FairSpecChunk == SpecChunk /\ WF_vars(ChunkTextStep)

----------------------------------------------------------------------------
(* sync_local: reading a file *)

\* read_json_file raises on text that is not JSON
ReadRaises(content) == content.kind = "malformed"

\* read_json_file: the object, whatever the layout it was written in
ReadJsonFile(content) == content.obj

\* json.dumps of a string: quoted, with newline, quote and backslash escaped
JsonString(str) ==
    LET escape(c) == IF c = 10 THEN <<92, 110>>
                     ELSE IF c \in {34, 92} THEN <<92, c>>
                     ELSE <<c>>
    IN  <<34>> \o Concat([i \in 1..Len(str) |-> escape(str[i])]) \o <<34>>

\* dump_json_compact: json.dumps(obj, separators=(",", ":"))
DumpJsonCompact(obj) ==
    <<123>>
    \o Join(<<44>>, [i \in 1..Len(obj) |->
                        JsonString(obj[i][1]) \o <<58>> \o JsonString(obj[i][2])])
    \o <<125>>

MaxFlatLen == 200000

\* flatten_json_to_text of an object of strings: "key: value" lines, the
\* value with its newlines turned to spaces and stripped, empty ones left out
FlattenJsonToText(obj) ==
    LET value(i) == Strip([p \in 1..Len(obj[i][2]) |->
                              IF obj[i][2][p] = 10 THEN 32 ELSE obj[i][2][p]])
        kept == SelectSeq([i \in 1..Len(obj) |-> i], LAMBDA i : value(i) # <<>>)
        lines == [k \in 1..Len(kept) |->
                     obj[kept[k]][1] \o <<58, 32>> \o value(kept[k])]
        text == Join(<<10>>, lines)
    IN  IF Len(text) > MaxFlatLen THEN SubSeq(text, 1, MaxFlatLen) ELSE text

\* sha256_bytes: the digest stands for the bytes it was computed from
Sha256Bytes(raw) == [alg |-> "sha256", of |-> raw]

----------------------------------------------------------------------------
(* sync_local *)

\* base.rglob("*.json"): the files that exist
JsonFiles(dir) == {fp \in Paths : dir.files[fp].kind # "none"}

\* The orders in which rglob may yield the files
ScanOrders(dir) ==
    {order \in [1..Cardinality(JsonFiles(dir)) -> JsonFiles(dir)] :
        \A fp \in JsonFiles(dir) : \E k \in DOMAIN order : order[k] = fp}

\* The record of this file: q.first() of the query on source, path and user
Existing(items, rel) ==
    LET found == {k \in 1..Len(items) : /\ items[k].source = "localfs"
                                        /\ items[k].file_path = rel
                                        /\ items[k].user_id = DEFAULT_USER_ID}
    IN  IF found = {} THEN 0 ELSE CHOOSE k \in found : \A m \in found : k <= m

\* The except branch: errors += 1, db.rollback(), one entry in errors_detail
SyncFailed(st, fp, error) ==
    [st EXCEPT !.errors = @ + 1,
               !.errors_detail = Append(@, [file |-> RelPath(fp),
                                            error |-> error])]

\* sync_local that rewrites the record of a file whose hash is the stored one
SyncFile_NoSkip(st, fp, content, dry_run, commit_fails) ==
    LET st1 == [st EXCEPT !.scanned = @ + 1]
        rel == RelPath(fp)
        obj == ReadJsonFile(content)
        raw == DumpJsonCompact(obj)
        text == FlattenJsonToText(obj)
        content_hash == Sha256Bytes(raw)
        k == Existing(st.items, rel)
        now == st.now + 1
    IN  IF ReadRaises(content) THEN SyncFailed(st1, fp, "JSONDecodeError")
        ELSE IF dry_run
        THEN IF k # 0 THEN [st1 EXCEPT !.updated = @ + 1]
             ELSE [st1 EXCEPT !.created = @ + 1]
        ELSE IF k # 0
        THEN LET st2 == [st1 EXCEPT !.updated = @ + 1, !.now = now]
             IN  IF commit_fails THEN SyncFailed(st2, fp, "commit")
                 ELSE [st2 EXCEPT !.items[k].folder_date = FolderDate(fp),
                                  !.items[k].content_text = text,
                                  !.items[k].content_hash = content_hash,
                                  !.items[k].last_synced_at = now,
                                  !.items[k].updated_at = now]
        ELSE LET st2 == [st1 EXCEPT !.created = @ + 1, !.now = now]
                 item == [id |-> Len(st.items) + 1,
                          user_id |-> DEFAULT_USER_ID,
                          source |-> "localfs",
                          folder_date |-> FolderDate(fp),
                          file_path |-> rel,
                          content_text |-> text,
                          content_hash |-> content_hash,
                          last_synced_at |-> now,
                          updated_at |-> now]
             IN  IF commit_fails THEN SyncFailed(st2, fp, "commit")
                 ELSE [st2 EXCEPT !.items = Append(@, item)]

\* The body of the loop of sync_local for one file
SyncFile(st, fp, content, dry_run, commit_fails) ==
    LET st1 == [st EXCEPT !.scanned = @ + 1]
        rel == RelPath(fp)
        obj == ReadJsonFile(content)
        raw == DumpJsonCompact(obj)
        text == FlattenJsonToText(obj)
        content_hash == Sha256Bytes(raw)
        k == Existing(st.items, rel)
        now == st.now + 1
    IN  IF ReadRaises(content) THEN SyncFailed(st1, fp, "JSONDecodeError")
        ELSE IF k # 0 /\ st.items[k].content_hash = content_hash
        THEN [st1 EXCEPT !.unchanged = @ + 1]
        ELSE IF dry_run
        THEN IF k # 0 THEN [st1 EXCEPT !.updated = @ + 1]
             ELSE [st1 EXCEPT !.created = @ + 1]
        ELSE IF k # 0
        THEN LET st2 == [st1 EXCEPT !.updated = @ + 1, !.now = now]
             IN  IF commit_fails THEN SyncFailed(st2, fp, "commit")
                 ELSE [st2 EXCEPT !.items[k].folder_date = FolderDate(fp),
                                  !.items[k].content_text = text,
                                  !.items[k].content_hash = content_hash,
                                  !.items[k].last_synced_at = now,
                                  !.items[k].updated_at = now]
        ELSE LET st2 == [st1 EXCEPT !.created = @ + 1, !.now = now]
                 item == [id |-> Len(st.items) + 1,
                          user_id |-> DEFAULT_USER_ID,
                          source |-> "localfs",
                          folder_date |-> FolderDate(fp),
                          file_path |-> rel,
                          content_text |-> text,
                          content_hash |-> content_hash,
                          last_synced_at |-> now,
                          updated_at |-> now]
             IN  IF commit_fails THEN SyncFailed(st2, fp, "commit")
                 ELSE [st2 EXCEPT !.items = Append(@, item)]

\* The loop with the try around it: the first file that fails ends it
RECURSIVE SyncLoop_Abort(_, _, _, _, _)
SyncLoop_Abort(st, dir, order, dry_run, failing) ==
    IF order = <<>> \/ st.errors > 0 THEN st
    ELSE SyncLoop_Abort(SyncFile(st, Head(order), dir.files[Head(order)],
                                 dry_run, Head(order) \in failing),
                        dir, Tail(order), dry_run, failing)

RECURSIVE SyncLoop(_, _, _, _, _)
\* for fp in base.rglob("*.json")
SyncLoop(st, dir, order, dry_run, failing) ==
    IF order = <<>> THEN st
    ELSE SyncLoop(SyncFile(st, Head(order), dir.files[Head(order)], dry_run,
                           Head(order) \in failing),
                  dir, Tail(order), dry_run, failing)

\* sync_local(dry_run) when rglob yields the files in this order and the
\* commits of the failing files raise
SyncLocal(dry_run, order, failing) ==
    /\ clock + Cardinality(Paths) <= MaxClock
    /\ LET counters == [items |-> kitems, now |-> clock, scanned |-> 0,
                        created |-> 0, updated |-> 0, unchanged |-> 0,
                        errors |-> 0, errors_detail |-> <<>>]
           \* HTTPException(400) when KNOWLEDGE_DIR is not found
           st == IF kfiles.exists
                 THEN SyncLoop(counters, kfiles, order, dry_run, failing)
                 ELSE counters
       IN  /\ kitems' = st.items
           /\ clock' = st.now
           /\ resp' = [op |-> "sync_local",
                       status |-> IF kfiles.exists THEN 200 ELSE 400,
                       dry_run |-> dry_run, scanned_files |-> st.scanned,
                       created |-> st.created, updated |-> st.updated,
                       unchanged |-> st.unchanged, errors |-> st.errors,
                       errors_detail |-> st.errors_detail]
    /\ UNCHANGED <<tvars, kfiles, kchunks, chunking>>

\* Somebody writes, rewrites or removes a file of the knowledge directory
WriteFile(fp, content) ==
    /\ content # kfiles.files[fp] \/ ~kfiles.exists
    /\ kfiles' = [exists |-> TRUE, files |-> [kfiles.files EXCEPT ![fp] = content]]
    /\ resp' = [op |-> "write_file", status |-> 0, file |-> RelPath(fp)]
    /\ UNCHANGED <<tvars, kitems, kchunks, clock, chunking>>

\* Objects to store: two one-key documents ("k": "gcs" and "k": "403 x")
DocGcs == <<<<<<107>>, <<103, 99, 115>>>>>>
DocForbidden == <<<<<<107>>, <<52, 48, 51, 32, 120>>>>>>

SyncContents ==
    {NoFile, MalformedFile, JsonFile(DocGcs, "compact"),
     JsonFile(DocGcs, "indented"), JsonFile(DocForbidden, "compact")}

NextSync ==
    \/ \E fp \in Paths, content \in SyncContents : WriteFile(fp, content)
    \/ \E dry_run \in BOOLEAN, order \in ScanOrders(kfiles),
          failing \in SUBSET JsonFiles(kfiles) :
           SyncLocal(dry_run, order, failing)

\* sync_local over a directory that changes between calls
SpecSync == Init /\ [][NextSync]_vars

----------------------------------------------------------------------------
(* make_chunks *)

\* knowledge_chunks in the order of their ids (autoincrement: a new row
\* comes after every row there is)

\* q.first() of the query on the id and the user
FindItem(items, item_id) ==
    LET found == {k \in 1..Len(items) : /\ items[k].id = item_id
                                        /\ items[k].user_id = DEFAULT_USER_ID}
    IN  IF found = {} THEN 0 ELSE CHOOSE k \in found : TRUE

\* The chunks stored for an item, in the order of their ids
ChunksOf(rows, item_id) == SelectSeq(rows, LAMBDA row : row.item_id = item_id)

\* make_chunks that keeps the chunks the item had
DeleteChunks_Keep(rows, item_id) == rows

\* db.query(KnowledgeChunk).filter(item_id == item.id).delete(); db.commit()
DeleteChunks(rows, item_id) ==
    SelectSeq(rows, LAMBDA row : row.item_id # item_id)

\* for idx, txt in enumerate(chunks): db.add(KnowledgeChunk(...)); db.commit()
InsertChunks(rows, item, chunks) ==
    rows \o [idx \in 1..Len(chunks) |->
                [user_id |-> item.user_id, item_id |-> item.id,
                 chunk_index |-> idx - 1, text |-> chunks[idx]]]

\* make_chunks with no other request between its two commits
MakeChunks(item_id, chunk_size, overlap) ==
    /\ LET k == FindItem(kitems, item_id)
       IN  IF k = 0
           THEN /\ resp' = [op |-> "make_chunks", status |-> 404,
                            item_id |-> item_id, chunk_size |-> chunk_size,
                            overlap |-> overlap, chunks |-> 0]
                /\ UNCHANGED kchunks
           ELSE LET chunks == ChunkText(kitems[k].content_text, chunk_size,
                                        overlap)
                IN  /\ kchunks' = InsertChunks(DeleteChunks(kchunks, item_id),
                                               kitems[k], chunks)
                    /\ resp' = [op |-> "make_chunks", status |-> 200,
                                item_id |-> item_id,
                                chunk_size |-> chunk_size,
                                overlap |-> overlap, chunks |-> Len(chunks)]
    /\ UNCHANGED <<tvars, kfiles, kitems, clock, chunking>>

\* Objects whose text fills more than one window
DocLong == <<<<<<107>>, Text(450, 0, 0)>>>>
DocLonger == <<<<<<107>>, Text(260, 198, 203)>>>>
DocRewritten == <<<<<<107>>, Text(210, 0, 0)>>>>

ItemIds == 1..(Cardinality(Paths) + 1)

\* The two files are written, one of them is rewritten, and they are synced
\* and chunked again and again, with the default ChunkRequest and with the
\* smallest window
NextChunks ==
    \/ /\ kfiles.files[PathRoot] = NoFile
       /\ WriteFile(PathRoot, JsonFile(DocLong, "compact"))
    \/ /\ kfiles.files[PathRoot] = JsonFile(DocLong, "compact")
       /\ WriteFile(PathRoot, JsonFile(DocRewritten, "compact"))
    \/ WriteFile(PathDated, JsonFile(DocLonger, "compact"))
    \/ \E order \in ScanOrders(kfiles) : SyncLocal(FALSE, order, {})
    \/ \E item_id \in ItemIds,
          req \in {<<DefaultChunkSize, DefaultOverlap>>, <<MinChunkSize, 50>>} :
           MakeChunks(item_id, req[1], req[2])

\* sync_local and make_chunks, one request at a time
SpecChunks == Init /\ [][NextChunks]_vars

----------------------------------------------------------------------------
(* _tokenize and _search_memory *)

\* [a-z0-9_]
WordChar(c) == c \in 97..122 \/ c \in 48..57 \/ c = 95

\* The positions at which a run of word characters begins
RunStarts(s) ==
    {p \in 1..Len(s) : WordChar(s[p]) /\ (p = 1 \/ ~WordChar(s[p - 1]))}

\* The position at which the run that begins at p ends
RunEnd(s, p) ==
    CHOOSE e \in p..Len(s) : /\ \A q \in p..e : WordChar(s[q])
                             /\ e = Len(s) \/ ~WordChar(s[e + 1])

\* re.findall(r"[a-z0-9_]+", s)
FindAll(s) ==
    [k \in 1..Cardinality(RunStarts(s)) |->
        LET p == CHOOSE p \in RunStarts(s) :
                     Cardinality({x \in RunStarts(s) : x < p}) = k - 1
        IN  SubSeq(s, p, RunEnd(s, p))]

\* word in s
Contains(s, word) ==
    \E off \in 0..(Len(s) - Len(word)) :
        SubSeq(s, off + 1, off + Len(word)) = word

\* stop: como, resolvo, erro, no, na, pro, para, de, do, da, um, uma, que, o, a, e
StopWords ==
    {<<99, 111, 109, 111>>, <<114, 101, 115, 111, 108, 118, 111>>,
     <<101, 114, 114, 111>>, <<110, 111>>, <<110, 97>>, <<112, 114, 111>>,
     <<112, 97, 114, 97>>, <<100, 101>>, <<100, 111>>, <<100, 97>>,
     <<117, 109>>, <<117, 109, 97>>, <<113, 117, 101>>, <<111>>, <<97>>,
     <<101>>}

\* The triggers of the boosts: gcs, bucket, storage; 403
StorageTriggers ==
    {<<103, 99, 115>>, <<98, 117, 99, 107, 101, 116>>,
     <<115, 116, 111, 114, 97, 103, 101>>}
ForbiddenTrigger == <<52, 48, 51>>

\* bucket, gcs, iam, permiss, writer, storage
StorageBoost ==
    <<<<98, 117, 99, 107, 101, 116>>, <<103, 99, 115>>, <<105, 97, 109>>,
     <<112, 101, 114, 109, 105, 115, 115>>, <<119, 114, 105, 116, 101, 114>>,
     <<115, 116, 111, 114, 97, 103, 101>>>>

\* forbidden, permission, permiss, iam, writer
ForbiddenBoost ==
    <<<<102, 111, 114, 98, 105, 100, 100, 101, 110>>,
     <<112, 101, 114, 109, 105, 115, 115, 105, 111, 110>>,
     <<112, 101, 114, 109, 105, 115, 115>>, <<105, 97, 109>>,
     <<119, 114, 105, 116, 101, 114>>>>

MinTokenLen == 3
MaxTokens == 10

\* _tokenize that keeps the short tokens
KeepToken_AnyLength(t) == t \notin StopWords

\* len(t) >= 3 and t not in stop
KeepToken(t) == Len(t) >= MinTokenLen /\ t \notin StopWords

\* _tokenize that keeps every occurrence of a token
RECURSIVE Dedupe_KeepAll(_, _)
Dedupe_KeepAll(tokens, out) ==
    IF tokens = <<>> THEN out
    ELSE Dedupe_KeepAll(Tail(tokens), Append(out, Head(tokens)))

RECURSIVE Dedupe(_, _)
\* The loop over tokens with the seen set: out holds the first occurrences
Dedupe(tokens, out) ==
    IF tokens = <<>> THEN out
    ELSE IF \E i \in 1..Len(out) : out[i] = Head(tokens)
    THEN Dedupe(Tail(tokens), out)
    ELSE Dedupe(Tail(tokens), Append(out, Head(tokens)))

\* The tokens of the query followed by the boosts its triggers call for
Candidates(q) ==
    LET q_low == Lower(q)
        base == SelectSeq(FindAll(q_low), KeepToken)
        boosted == IF \E w \in StorageTriggers : Contains(q_low, w)
                   THEN base \o StorageBoost ELSE base
    IN  IF Contains(q_low, ForbiddenTrigger)
        THEN boosted \o ForbiddenBoost ELSE boosted

\* _tokenize(q)
Tokenize(q) ==
    LET out == Dedupe(Candidates(q), <<>>)
    IN  SubSeq(out, 1, Min(Len(out), MaxTokens))

\* content_text ILIKE %t%: any case, and _ in the token stands for any
\* one character
ILike(text, t) ==
    \E off \in 0..(Len(text) - Len(t)) :
        \A j \in 1..Len(t) : t[j] = 95 \/ Lower(text)[off + j] = t[j]

\* str.find: the first offset of word in s, or -1
Find(s, word) ==
    LET found == {off \in 0..(Len(s) - Len(word)) :
                     SubSeq(s, off + 1, off + Len(word)) = word}
    IN  IF found = {} THEN -1
        ELSE CHOOSE off \in found : \A other \in found : off <= other

SnippetDefault == 220
SnippetBefore == 80
SnippetAfter == 140

\* The text around the first token found in the record, else its beginning
Snippet(text, tokens) ==
    LET hits == {i \in 1..Len(tokens) : Find(Lower(text), tokens[i]) # -1}
    IN  IF hits = {} THEN Slice(text, 0, Min(Len(text), SnippetDefault))
        ELSE LET first == CHOOSE i \in hits : \A other \in hits : i <= other
                 idx == Find(Lower(text), tokens[first])
             IN  Slice(text, Max(0, idx - SnippetBefore),
                       Min(Len(text), idx + SnippetAfter))

\* _search_memory(db, q, limit)
SearchMemory(items, q, limit) ==
    LET tokens == Tokenize(q)
        matching == {k \in 1..Len(items) :
                        /\ items[k].user_id = DEFAULT_USER_ID
                        /\ \E i \in 1..Len(tokens) :
                               ILike(items[k].content_text, tokens[i])}
        newer(k) == {m \in matching :
                        items[m].updated_at > items[k].updated_at}
        rows == [r \in 1..Min(limit, Cardinality(matching)) |->
                    items[CHOOSE k \in matching :
                              Cardinality(newer(k)) = r - 1]]
    IN  IF tokens = <<>> THEN <<>>
        ELSE [r \in 1..Len(rows) |->
                 [id |-> rows[r].id, file_path |-> rows[r].file_path,
                  folder_date |-> rows[r].folder_date,
                  snippet |-> Snippet(rows[r].content_text, tokens)]]

\* A call of _search_memory, as preview and respond make it
SearchMemoryCall(q, limit) ==
    /\ resp' = [op |-> "search_memory", status |-> 200, q |-> q,
                limit |-> limit, tokens |-> Tokenize(q),
                suggested |-> SearchMemory(kitems, q, limit)]
    /\ UNCHANGED <<tvars, kvars>>

\* Queries without and with tokens: "a ", "ab ", "GCS ", "_ "
\* followed by "e o", "c", "403", "x-y", "k"
SearchQueries ==
    {first \o second :
        first \in {<<97, 32>>, <<97, 98, 32>>, <<71, 67, 83, 32>>, <<95, 32>>},
        second \in {<<101, 32, 111>>, <<99>>, <<52, 48, 51>>,
                    <<120, 45, 121>>, <<107>>}}

\* The two files are written once each and synced; searches at any time,
\* with the limit of respond and with that of a preview for one record
NextSearch ==
    \/ WriteFile(PathRoot, JsonFile(DocGcs, "compact"))
    \/ WriteFile(PathDated, JsonFile(DocForbidden, "compact"))
    \/ \E order \in ScanOrders(kfiles) : SyncLocal(FALSE, order, {})
    \/ \E q \in SearchQueries, limit \in {1, 5} :
           SearchMemoryCall(q, limit)

\* keyword search over the records sync_local stores
SpecSearch == Init /\ [][NextSearch]_vars

TokenizeCall(q) ==
    /\ resp' = [op |-> "tokenize", status |-> 200, q |-> q,
                tokens |-> Tokenize(q)]
    /\ UNCHANGED <<tvars, kvars>>

\* Queries of up to four parts: "GCS ", "Como ", "ab-"; "403 ", "abc ", "a ";
\* "xyz_1 ", "abc ", "bucket "; "q1w", "ABC", "storage gcs iam"
TokenizeQueries ==
    {a \o b \o c \o d :
        a \in {<<>>, <<71, 67, 83, 32>>, <<67, 111, 109, 111, 32>>,
               <<97, 98, 45>>},
        b \in {<<>>, <<52, 48, 51, 32>>, <<97, 98, 99, 32>>, <<97, 32>>},
        c \in {<<>>, <<120, 121, 122, 95, 49, 32>>, <<97, 98, 99, 32>>,
               <<98, 117, 99, 107, 101, 116, 32>>},
        d \in {<<>>, <<113, 49, 119>>, <<65, 66, 67>>,
               <<115, 116, 111, 114, 97, 103, 101, 32, 103, 99, 115, 32, 105, 97, 109>>}}

NextTokenize == \E q \in TokenizeQueries : TokenizeCall(q)

\* _tokenize over queries with stop words, repeats, triggers and many tokens
SpecTokenize == Init /\ [][NextTokenize]_vars

----------------------------------------------------------------------------
(* _build_context_block *)

RECURSIVE Decimal(_)
\* str(n) of a natural number
Decimal(n) ==
    IF n < 10 THEN <<48 + n>> ELSE Decimal(n \div 10) \o <<48 + (n % 10)>>

\* f"[MEMORY id={it.id} file={it.file_path} folder={it.folder_date}]\n",
\* where a folder_date of None is written "None"
ContextHeader(it) ==
    <<91, 77, 69, 77, 79, 82, 89, 32, 105, 100, 61>> \o Decimal(it.id)
    \o <<32, 102, 105, 108, 101, 61>> \o it.file_path
    \o <<32, 102, 111, 108, 100, 101, 114, 61>>
    \o (IF it.folder_date = NoFolder THEN <<78, 111, 110, 101>>
        ELSE it.folder_date)
    \o <<93, 10>>

MaxBodyChars == 2000
DefaultMaxChars == 6000

\* header + body + "\n"
ContextPiece(it) ==
    ContextHeader(it)
    \o Strip(Slice(it.content_text, 0, Min(Len(it.content_text), MaxBodyChars)))
    \o <<10>>

RECURSIVE ContextLoop(_, _, _, _)
\* The loop over the items: the first piece that does not fit ends it
ContextLoop(items, max_chars, chunks, total) ==
    IF items = <<>> THEN chunks
    ELSE LET piece == ContextPiece(Head(items))
         IN  IF total + Len(piece) > max_chars THEN chunks
             ELSE ContextLoop(Tail(items), max_chars, Append(chunks, piece),
                              total + Len(piece))

\* _build_context_block(items, max_chars): "\n---\n".join(chunks).strip()
BuildContextBlock(items, max_chars) ==
    LET separator == <<10, 45, 45, 45, 10>>
    IN  Strip(Join(separator, ContextLoop(items, max_chars, <<>>, 0)))

\* A stored record with this id, path and text
ContextItem(id, fp, text) ==
    [id |-> id, user_id |-> DEFAULT_USER_ID, source |-> "localfs",
     folder_date |-> FolderDate(fp), file_path |-> RelPath(fp),
     content_text |-> text, content_hash |-> Sha256Bytes(<<>>),
     last_synced_at |-> 1, updated_at |-> 1]

\* Records whose piece is 2000 characters long, whose text is longer than
\* a body may be, and whose short text has white space around it
ContextItems ==
    {ContextItem(1, PathRoot, Text(1961, 0, 0)),
     ContextItem(2, PathDated, Text(2500, 0, 0)),
     ContextItem(3, PathRoot, Text(12, 1, 2) \o <<32>>)}

ContextLists ==
    {<<>>}
    \cup {<<a>> : a \in ContextItems}
    \cup {<<a, b>> : a \in ContextItems, b \in ContextItems}
    \cup {<<a, b, c>> : a \in ContextItems, b \in ContextItems,
                        c \in ContextItems}

BuildContextBlockCall(items, max_chars) ==
    /\ resp' = [op |-> "build_context_block", status |-> 200,
                items |-> items, max_chars |-> max_chars,
                block |-> BuildContextBlock(items, max_chars)]
    /\ UNCHANGED <<tvars, kvars>>

\* Budgets: the default and some that one or two short pieces fill
NextContext ==
    \E items \in ContextLists,
       max_chars \in {0, 50, 100, 4100, DefaultMaxChars} :
        BuildContextBlockCall(items, max_chars)

\* _build_context_block over lists of records and budgets
SpecContext == Init /\ [][NextContext]_vars

----------------------------------------------------------------------------
(* make_chunks, one commit at a time *)

\* The requests a client sends: the default ChunkRequest and the smallest
\* window
ChunkRequests == {<<DefaultChunkSize, DefaultOverlap>>, <<MinChunkSize, 50>>}

\* make_chunks that commits the deletion only together with the new chunks
MakeChunksDelete_Deferred(r, item_id, chunk_size, overlap) ==
    /\ chunking[r].pc # "deleted"
    /\ LET k == FindItem(kitems, item_id)
       IN  /\ k # 0
           /\ chunking' = [chunking EXCEPT ![r] =
                  [pc |-> "deleted", item_id |-> item_id,
                   chunks |-> ChunkText(kitems[k].content_text, chunk_size,
                                        overlap),
                   deleted |-> 0]]
           /\ resp' = [op |-> "delete_chunks", status |-> 0, req |-> r,
                       item_id |-> item_id]
    /\ UNCHANGED <<tvars, kfiles, kitems, kchunks, clock>>

\* Request r up to its first commit: the item is read, its text is chunked
\* and the item's stored chunks are deleted (deleted is the row count of the
\* DELETE statement)
MakeChunksDelete(r, item_id, chunk_size, overlap) ==
    /\ chunking[r].pc # "deleted"
    /\ LET k == FindItem(kitems, item_id)
       IN  IF k = 0
           THEN /\ resp' = [op |-> "make_chunks", status |-> 404, req |-> r,
                            item_id |-> item_id, chunks |-> 0]
                /\ UNCHANGED <<kchunks, chunking>>
           ELSE /\ kchunks' = DeleteChunks(kchunks, item_id)
                /\ chunking' = [chunking EXCEPT ![r] =
                       [pc |-> "deleted", item_id |-> item_id,
                        chunks |-> ChunkText(kitems[k].content_text,
                                             chunk_size, overlap),
                        deleted |-> Len(ChunksOf(kchunks, item_id))]]
                /\ resp' = [op |-> "delete_chunks", status |-> 0, req |-> r,
                            item_id |-> item_id]
    /\ UNCHANGED <<tvars, kfiles, kitems, clock>>

\* Request r from its first commit to its answer: the chunks it computed are
\* added and committed together
MakeChunksInsert(r) ==
    /\ chunking[r].pc = "deleted"
    /\ LET item == kitems[FindItem(kitems, chunking[r].item_id)]
       IN  /\ kchunks' = InsertChunks(kchunks, item, chunking[r].chunks)
           /\ resp' = [op |-> "make_chunks", status |-> 200, req |-> r,
                       item_id |-> item.id,
                       chunks |-> Len(chunking[r].chunks)]
    /\ chunking' = [chunking EXCEPT ![r].pc = "done"]
    /\ UNCHANGED <<tvars, kfiles, kitems, clock>>

\* The process serving request r dies after the first commit: nothing it
\* had not committed reaches the store
MakeChunksCrash(r) ==
    /\ chunking[r].pc = "deleted"
    /\ chunking' = [chunking EXCEPT ![r].pc = "crashed"]
    /\ resp' = [op |-> "crash", status |-> 0, req |-> r,
                item_id |-> chunking[r].item_id]
    /\ UNCHANGED <<tvars, kfiles, kitems, kchunks, clock>>

\* One request at a time, which may die between its two commits, over files
\* that are written, rewritten and synced
NextChunkCrash ==
    \/ /\ kfiles.files[PathRoot] = NoFile
       /\ WriteFile(PathRoot, JsonFile(DocLong, "compact"))
    \/ /\ kfiles.files[PathRoot] = JsonFile(DocLong, "compact")
       /\ WriteFile(PathRoot, JsonFile(DocRewritten, "compact"))
    \/ WriteFile(PathDated, JsonFile(DocLonger, "compact"))
    \/ \E order \in ScanOrders(kfiles) : SyncLocal(FALSE, order, {})
    \/ \E item_id \in ItemIds, req \in ChunkRequests :
           MakeChunksDelete(1, item_id, req[1], req[2])
    \/ MakeChunksInsert(1)
    \/ MakeChunksCrash(1)

SpecChunkCrash == Init /\ [][NextChunkCrash]_vars

\* Two requests whose commits interleave in every order, over one file that
\* is written and synced
NextChunkConc ==
    \/ /\ kfiles.files[PathRoot] = NoFile
       /\ WriteFile(PathRoot, JsonFile(DocLong, "compact"))
    \/ \E order \in ScanOrders(kfiles) : SyncLocal(FALSE, order, {})
    \/ \E r \in Reqs, item_id \in ItemIds, req \in ChunkRequests :
           MakeChunksDelete(r, item_id, req[1], req[2])
    \/ \E r \in Reqs : MakeChunksInsert(r)

SpecChunkConc == Init /\ [][NextChunkConc]_vars

----------------------------------------------------------------------------
(* Properties *)

CountCompletions(cs, task_id, d) ==
    Cardinality({i \in 1..Len(cs) : /\ cs[i].user_id = DEFAULT_USER_ID
                                    /\ cs[i].task_id = task_id
                                    /\ cs[i].occurrence_date = d})

IsOneOff(ts, task_id) ==
    /\ task_id \in 1..Len(ts)
    /\ ts[task_id].kind = "one_off"

\* C1: a complete request for an existing task and a date accepted for it
\* never errors; it inserts one record when none exists for (owner, task,
\* date), and otherwise answers "already" and inserts nothing; afterwards
\* exactly one record exists for (owner, task, date).
C1_CompletionIdempotent ==
    [][(resp'.op = "complete" /\ resp'.status \notin {400, 404}) =>
         LET id == resp'.task_id
             d == resp'.occurrence_date
         IN  /\ resp'.status = 200
             /\ IF CountCompletions(completions, id, d) > 0
                THEN resp'.already /\ completions' = completions
                ELSE /\ ~resp'.already
                     /\ Len(completions') = Len(completions) + 1
             /\ CountCompletions(completions', id, d) = 1]_vars

C1_Witness ==
    /\ resp.op = "complete"
    /\ resp.status = 200
    /\ resp.already
    /\ CountCompletions(completions, resp.task_id, resp.occurrence_date) = 1

\* C2: with the check and the insert of concurrent complete requests
\* interleaved, no complete request ends in an error and no two records
\* exist for one (owner, task, date).
C2_ConcurrentCompleteNeverFails ==
    /\ resp.op = "complete" => resp.status \in {200, 400, 404}
    /\ \A i, j \in 1..Len(completions) :
           (/\ completions[i].user_id = completions[j].user_id
            /\ completions[i].task_id = completions[j].task_id
            /\ completions[i].occurrence_date = completions[j].occurrence_date)
           => i = j

\* C3: a complete request on a one-off task for a date other than its due
\* date fails with 400 and leaves the completion records unchanged; for the
\* due date it succeeds.
C3_OneOffOnlyOnDueDate ==
    [][(resp'.op = "complete" /\ IsOneOff(tasks, resp'.task_id)) =>
         LET task == tasks[resp'.task_id]
             d == resp'.occurrence_date
         IN  IF d # task.due_date
             THEN resp'.status = 400 /\ completions' = completions
             ELSE resp'.status = 200]_vars

C3_Witness ==
    /\ resp.op = "complete"
    /\ resp.status = 400
    /\ IsOneOff(tasks, resp.task_id)
    /\ resp.occurrence_date # tasks[resp.task_id].due_date

\* C4: every completion record of a one-off task is dated on the task's due
\* date.
C4_OneOffCompletionOnDueDate ==
    \A i \in 1..Len(completions) :
        IsOneOff(tasks, completions[i].task_id) =>
            completions[i].occurrence_date =
                tasks[completions[i].task_id].due_date

C4_Witness ==
    \E i \in 1..Len(completions) :
        /\ IsOneOff(tasks, completions[i].task_id)
        /\ \E j \in 1..Len(tasks) : tasks[j].kind = "recurring"

\* C5: every stored task is either a one-off task with a due date and no
\* start date and no rule, or a recurring task with a start date and a rule
\* and no due date.
OneOffShape(t) ==
    /\ t.kind = "one_off"
    /\ t.due_date # NoDate
    /\ t.start_date = NoDate
    /\ t.rrule = NoRule

RecurringShape(t) ==
    /\ t.kind = "recurring"
    /\ t.due_date = NoDate
    /\ t.start_date # NoDate
    /\ t.rrule \notin {NoRule, EmptyRule}

C5_ExactlyOneShape ==
    \A i \in 1..Len(tasks) :
        /\ OneOffShape(tasks[i]) \/ RecurringShape(tasks[i])
        /\ ~(OneOffShape(tasks[i]) /\ RecurringShape(tasks[i]))

C5_Witness ==
    /\ \E i \in 1..Len(tasks) : OneOffShape(tasks[i])
    /\ \E i \in 1..Len(tasks) : RecurringShape(tasks[i])

ItemsOfTask(items, id) == {k \in 1..Len(items) : items[k].id = id}

InWindow(d) == resp.start <= d /\ d <= resp.end

\* C6 as claimed: in the result of a window query every one-off task due in
\* the window appears exactly once, with kind one_off and its due date.
C6_OneOffAlwaysListed ==
    resp.op = "window" =>
        \A i \in 1..Len(tasks) :
            (IsOneOff(tasks, i) /\ InWindow(tasks[i].due_date)) =>
                /\ Cardinality(ItemsOfTask(resp.items, i)) = 1
                /\ \A k \in ItemsOfTask(resp.items, i) :
                       /\ resp.items[k].kind = "one_off"
                       /\ resp.items[k].date = tasks[i].due_date

\* C6 as amended: a one-off task due in the window appears exactly once,
\* with kind one_off and its due date, unless hide_done is set and the task
\* is completed on its due date; then it does not appear.
C6_OneOffListedUnlessHidden ==
    resp.op = "window" =>
        \A i \in 1..Len(tasks) :
            (IsOneOff(tasks, i) /\ InWindow(tasks[i].due_date)) =>
                LET hidden ==
                        /\ resp.hide_done
                        /\ CountCompletions(completions, i,
                                            tasks[i].due_date) > 0
                IN  /\ Cardinality(ItemsOfTask(resp.items, i)) =
                           (IF hidden THEN 0 ELSE 1)
                    /\ \A k \in ItemsOfTask(resp.items, i) :
                           /\ resp.items[k].kind = "one_off"
                           /\ resp.items[k].date = tasks[i].due_date

C6_Witness ==
    /\ resp.op = "window"
    /\ resp.hide_done
    /\ \E i, j \in 1..Len(tasks) :
           /\ IsOneOff(tasks, i) /\ InWindow(tasks[i].due_date)
           /\ IsOneOff(tasks, j) /\ InWindow(tasks[j].due_date)
           /\ Cardinality(ItemsOfTask(resp.items, i)) = 1
           /\ CountCompletions(completions, j, tasks[j].due_date) > 0

\* C7: every item of a recurring task in the result of a window query is
\* dated within the window, and a recurring task that starts after the end
\* of the window has no item.
C7_OccurrencesWithinWindow ==
    resp.op = "window" =>
        /\ \A k \in 1..Len(resp.items) :
               resp.items[k].kind = "recurring" => InWindow(resp.items[k].date)
        /\ \A i \in 1..Len(tasks) :
               (tasks[i].kind = "recurring" /\ tasks[i].start_date > resp.end)
                   => ItemsOfTask(resp.items, i) = {}

C7_Witness ==
    /\ resp.op = "window"
    /\ \E k \in 1..Len(resp.items) : resp.items[k].kind = "recurring"
    /\ \E i \in 1..Len(tasks) :
           /\ tasks[i].rrule \in ValidRules
           /\ tasks[i].start_date > resp.end

\* C8: the result of a window query is in ascending order of (date,
\* priority, lower-cased title), one-off and recurring items together.
ItemLessOrEqual(a, b) ==
    \/ a.date < b.date
    \/ a.date = b.date /\ a.priority < b.priority
    \/ /\ a.date = b.date
       /\ a.priority = b.priority
       /\ ~StrLess(Lower(b.title), Lower(a.title))

C8_ResultSorted ==
    resp.op = "window" =>
        \A k \in 1..(Len(resp.items) - 1) :
            ItemLessOrEqual(resp.items[k], resp.items[k + 1])

C8_Witness ==
    /\ resp.op = "window"
    /\ \E k \in 1..(Len(resp.items) - 1) :
           LET a == resp.items[k]
               b == resp.items[k + 1]
           IN  /\ a.date = b.date
               /\ a.priority = b.priority
               /\ a.title = TitleLowerA
               /\ b.title = TitleUpperB
               /\ a.kind # b.kind
               /\ a.id > b.id

\* C9: in the result of a window query an item is marked done exactly when
\* a completion record exists for its task and date; with hide_done no item
\* is done; without hide_done every completed one-off task due in the window
\* and every completed occurrence in the window is listed.
Candidate(t, d) ==
    \/ t.kind = "one_off" /\ t.due_date = d
    \/ /\ t.kind = "recurring"
       /\ ~RrulestrRaises(t.rrule)
       /\ \E tick \in 0..(TicksPerDay - 1) :
              IsOccurrence(t.rrule, Combine(t.start_date, MinTime),
                           Combine(d, tick))

C9_DoneFlagMatchesCompletions ==
    resp.op = "window" =>
        /\ \A k \in 1..Len(resp.items) :
               resp.items[k].is_done <=>
                   CountCompletions(completions, resp.items[k].id,
                                    resp.items[k].date) > 0
        /\ resp.hide_done =>
               \A k \in 1..Len(resp.items) : ~resp.items[k].is_done
        /\ ~resp.hide_done =>
               \A i \in 1..Len(tasks), d \in resp.start..resp.end :
                   (/\ Candidate(tasks[i], d)
                    /\ CountCompletions(completions, i, d) > 0)
                   => \E k \in ItemsOfTask(resp.items, i) :
                          resp.items[k].date = d /\ resp.items[k].is_done

C9_Witness ==
    /\ resp.op = "window"
    /\ ~resp.hide_done
    /\ \E k \in 1..Len(resp.items) :
           resp.items[k].is_done /\ resp.items[k].kind = "recurring"
    /\ \E k \in 1..Len(resp.items) : ~resp.items[k].is_done

\* C10: a recurring task with a malformed rule does not make a window query
\* fail and has no item in the result, and the result is the one the query
\* gives when the tasks with a malformed rule are not stored.
Malformed(t) == t.rrule # NoRule /\ RrulestrRaises(t.rrule)

WithoutMalformed(ts) ==
    LET WellFormed(t) == ~Malformed(t)
    IN  SelectSeq(ts, WellFormed)

C10_MalformedRuleSkipped ==
    resp.op = "window" =>
        /\ resp.status = 200
        /\ \A i \in 1..Len(tasks) :
               Malformed(tasks[i]) => ItemsOfTask(resp.items, i) = {}
        /\ resp.items = WindowTasks(WithoutMalformed(tasks), completions,
                                    resp.start, resp.end, resp.hide_done)

C10_Witness ==
    /\ resp.op = "window"
    /\ \E i, j \in 1..Len(tasks) :
           /\ i < j
           /\ Malformed(tasks[i])
           /\ tasks[i].start_date <= resp.end
           /\ tasks[j].kind = "recurring"
           /\ ItemsOfTask(resp.items, j) # {}


\* C20: create_task answers a recurring request that carries no start_date
\* with an error and stores no task
C20_RecurringWithoutStartRejected ==
    [][\A payload \in PlainTaskCreate, today \in Dates :
           (/\ Truthy(payload.rrule)
            /\ payload.start_date = NoDate
            /\ CreateTask(payload, today))
           => /\ tasks' = tasks
              /\ resp'.status # 200]_vars

\* The range of limits an endpoint allows
AllowedRange(endpoint) ==
    CASE endpoint = "tasks_next" -> <<1, 365>>
      [] endpoint = "list_items" -> <<1, 500>>
      [] endpoint = "search" -> <<1, 50>>
      [] endpoint = "embed_chunks" -> <<1, 2000>>
      [] endpoint = "semantic_search" -> <<1, 25>>
      [] endpoint = "preview" -> <<1, 10>>

Clamp(x, lo, hi) == IF x < lo THEN lo ELSE IF x > hi THEN hi ELSE x

\* C19: an out-of-range limit is never rejected and behaves as the nearest
\* end of the endpoint's range: the maximum above it, the minimum below it
C19_LimitClamped ==
    resp.op = "limit"
    => /\ resp.status = 200
       /\ resp.limit = Clamp(resp.requested, AllowedRange(resp.endpoint)[1],
                             AllowedRange(resp.endpoint)[2])

ChunkDone == resp.op = "chunk_text" /\ resp.st.pc = "done"

NoEdgeWhitespace(s) == s = <<>> \/ (~IsSpace(s[1]) /\ ~IsSpace(s[Len(s)]))

\* chunk is the piece of text that begins at offset off
StartsAt(chunk, text, off) ==
    /\ off + Len(chunk) <= Len(text)
    /\ chunk = SubSeq(text, off + 1, off + Len(chunk))

\* The offsets k*(w-o) at which a window of the text begins
WindowStarts(n, w, o) ==
    {off \in 0..(n - 1) : /\ off % (w - o) = 0
                          /\ (off = 0 \/ off - (w - o) + w < n)}

\* C11 as stated: for text without leading or trailing white space, n <= w
\* yields one chunk equal to the input and for n > w the k-th chunk starts
\* at offset k*(w-o); 1100 characters with the defaults yield one chunk and
\* 2000 characters with 1100/180 yield two, the second starting at 920
C11_ChunkOffsets ==
    (ChunkDone /\ NoEdgeWhitespace(resp.text))
    => LET n == Len(resp.text)
           w == resp.st.chunk_size
           o == resp.st.overlap
           chunks == resp.st.chunks
       IN  /\ n <= w => chunks = <<resp.text>>
           /\ n > w => \A k \in 1..Len(chunks) :
                           StartsAt(chunks[k], resp.text, (k - 1) * (w - o))
           /\ (n = 2000 /\ w = 1100 /\ o = 180) => Len(chunks) = 2

\* C11 amended: the same for non-empty text in which no window begins with
\* white space; each chunk is then its window and there is one per window
C11_ChunkOffsetsOfCleanWindows ==
    (/\ ChunkDone
     /\ resp.text # <<>>
     /\ NoEdgeWhitespace(resp.text)
     /\ \A off \in WindowStarts(Len(resp.text), resp.st.chunk_size,
                               resp.st.overlap) :
            ~IsSpace(resp.text[off + 1]))
    => LET n == Len(resp.text)
           w == resp.st.chunk_size
           o == resp.st.overlap
           chunks == resp.st.chunks
       IN  /\ n <= w => chunks = <<resp.text>>
           /\ n > w => \A k \in 1..Len(chunks) :
                           StartsAt(chunks[k], resp.text, (k - 1) * (w - o))
           /\ Len(chunks) = Cardinality(WindowStarts(n, w, o))
           /\ (n = 2000 /\ w = 1100 /\ o = 180) => Len(chunks) = 2

C11_Witness ==
    /\ ChunkDone
    /\ resp.text = Text(2000, 0, 0)
    /\ resp.chunk_size = DefaultChunkSize
    /\ resp.overlap = DefaultOverlap
    /\ Len(resp.st.chunks) = 2
    /\ StartsAt(resp.st.chunks[2], resp.text, 920)

\* The guards of chunk_text hold in every state of a call
ChunkGuardsHold ==
    resp.op = "chunk_text"
    => LET st == resp.st
       IN  /\ st.chunk_size = Max(resp.chunk_size, 200)
           /\ st.overlap >= 0
           /\ st.overlap < st.chunk_size
           /\ resp.overlap >= st.chunk_size
              => st.overlap = st.chunk_size \div 4
           /\ \A k \in 1..Len(st.chunks) : Len(st.chunks[k]) <= st.chunk_size
           /\ (\A p \in 1..Len(resp.text) : IsSpace(resp.text[p]))
              => (st.pc = "done" /\ st.chunks = <<>>)

\* An iteration of the loop either ends the call or moves the offset forward
ChunkOffsetAdvances ==
    InChunkLoop => (resp'.st.pc = "done" \/ resp'.st.i > resp.st.i)

\* C12: chunk_text terminates for every text, chunk_size and overlap: the
\* window is max(chunk_size, 200), the overlap lies in [0, window) and is
\* window/4 when the requested one is >= window, the start offset increases
\* on every iteration, no chunk is longer than the window, and empty or
\* blank input yields no chunk
C12_ChunkTextTerminates ==
    /\ []ChunkGuardsHold
    /\ [][ChunkOffsetAdvances]_vars
    /\ (InChunkLoop ~> ChunkDone)

C12_Witness ==
    /\ ChunkDone
    /\ resp.chunk_size < MinChunkSize
    /\ resp.overlap >= resp.st.chunk_size
    /\ Len(resp.st.chunks) >= 2
    /\ resp.st.i > 0

\* A step of a sync_local call that found the directory
SyncStep == resp'.op = "sync_local" /\ resp'.status = 200 /\ vars' # vars

\* The hash sync_local computes for a readable file
FileHash(content) == Sha256Bytes(DumpJsonCompact(content.obj))

Readable(fp) == kfiles.files[fp].kind = "json"

\* The records stored for a path
RecordsOf(items, fp) ==
    {k \in 1..Len(items) : items[k].file_path = RelPath(fp)}

\* The file has a record whose stored hash is the hash of the file
HashStored(items, fp) ==
    /\ Readable(fp)
    /\ \E k \in RecordsOf(items, fp) :
           items[k].content_hash = FileHash(kfiles.files[fp])

\* The call reported an error for the file
SyncErrorFor(detail, fp) == \E e \in 1..Len(detail) : detail[e].file = RelPath(fp)

\* Files with the stored hash are counted unchanged and their records are
\* left as they were
SkipsUnchanged ==
    SyncStep
    => /\ resp'.unchanged = Cardinality({fp \in Paths : HashStored(kitems, fp)})
       /\ \A fp \in Paths :
              HashStored(kitems, fp)
              => \A k \in RecordsOf(kitems, fp) : kitems'[k] = kitems[k]

\* A new file gets one record, a changed file has its one record rewritten
\* with the new text and hash, and no path ever has two records
UpsertsInPlace ==
    SyncStep
    => /\ resp'.dry_run => kitems' = kitems
       /\ \A fp \in Paths :
              /\ Cardinality(RecordsOf(kitems', fp)) <= 1
              /\ RecordsOf(kitems, fp) \subseteq RecordsOf(kitems', fp)
              /\ (/\ ~resp'.dry_run
                  /\ Readable(fp)
                  /\ ~SyncErrorFor(resp'.errors_detail, fp))
                 => \E k \in RecordsOf(kitems', fp) :
                        /\ kitems'[k].content_hash = FileHash(kfiles.files[fp])
                        /\ kitems'[k].content_text =
                               FlattenJsonToText(kfiles.files[fp].obj)
                        /\ kitems'[k].folder_date = FolderDate(fp)

ErrorsFor(detail, fp) == {e \in 1..Len(detail) : detail[e].file = RelPath(fp)}

\* C17: a file that cannot be read or whose write fails does not abort the
\* sync: the call answers normally, has scanned every file, lists the failed
\* file once, has stored every other readable file, and keeps every record
\* that was stored before
C17_FailureDoesNotAbortSync ==
    [][(resp'.op = "sync_local" /\ kfiles.exists /\ vars' # vars)
       => /\ resp'.status = 200
          /\ resp'.scanned_files = Cardinality(JsonFiles(kfiles))
          /\ resp'.errors = Len(resp'.errors_detail)
          /\ \A fp \in Paths :
                 /\ Cardinality(ErrorsFor(resp'.errors_detail, fp)) <= 1
                 /\ kfiles.files[fp].kind = "malformed"
                    => Cardinality(ErrorsFor(resp'.errors_detail, fp)) = 1
                 /\ kfiles.files[fp].kind = "none"
                    => ErrorsFor(resp'.errors_detail, fp) = {}
                 /\ (/\ Readable(fp)
                     /\ ~resp'.dry_run
                     /\ ErrorsFor(resp'.errors_detail, fp) = {})
                    => \E k \in 1..Len(kitems') :
                           /\ kitems'[k].file_path = RelPath(fp)
                           /\ kitems'[k].content_hash =
                                  FileHash(kfiles.files[fp])
          /\ Len(kitems') >= Len(kitems)
          /\ \A k \in 1..Len(kitems) :
                 /\ kitems'[k].id = kitems[k].id
                 /\ kitems'[k].file_path = kitems[k].file_path]_vars

\* A sync in which one file failed and the other was stored
C17_Witness ==
    /\ resp.op = "sync_local"
    /\ resp.status = 200
    /\ ~resp.dry_run
    /\ resp.scanned_files = 2
    /\ resp.errors = 1
    /\ Len(resp.errors_detail) = 1
    /\ Len(kitems) = 1
    /\ resp.unchanged = 0

Range(f) == {f[x] : x \in DOMAIN f}

\* C18: after make_chunks on an item, the item's stored chunks are the chunks
\* of chunk_text on its text, in order and indexed 0..n-1, none of an earlier
\* generation is left, and the chunks of every other item are as they were
C18_ChunksReplaced ==
    [][(resp'.op = "make_chunks" /\ resp'.status = 200)
       => LET item == kitems[FindItem(kitems, resp'.item_id)]
              expected == ChunkText(item.content_text, resp'.chunk_size,
                                    resp'.overlap)
              stored == ChunksOf(kchunks', item.id)
          IN  /\ Len(stored) = Len(expected)
              /\ resp'.chunks = Len(expected)
              /\ \A i \in 1..Len(stored) :
                     /\ stored[i].text = expected[i]
                     /\ stored[i].chunk_index = i - 1
              /\ \A other \in ItemIds \ {item.id} :
                     ChunksOf(kchunks', other) = ChunksOf(kchunks, other)]_vars

\* An item whose text was rewritten, chunked again into two chunks, beside
\* another item that has chunks
C18_Witness ==
    /\ resp.op = "make_chunks"
    /\ resp.status = 200
    /\ resp.chunks = 2
    /\ kitems[resp.item_id].content_text = FlattenJsonToText(DocRewritten)
    /\ kitems[resp.item_id].updated_at > Len(kitems)
    /\ Len(ChunksOf(kchunks, resp.item_id)) = 2
    /\ \E other \in ItemIds \ {resp.item_id} :
           Len(ChunksOf(kchunks, other)) = 2

\* A letter, a digit or an underscore, in either case
Alnum(c) == c \in 48..57 \/ c \in 65..90 \/ c \in 97..122 \/ c = 95

\* The query has no run of three or more such characters
NoLongRun(q) ==
    ~\E p \in 1..(Len(q) - 2) : \A j \in 0..2 : Alnum(q[p + j])

\* C13: a query without an alphanumeric-or-underscore run of length >= 3
\* yields no token, boosts included, and the keyword search returns nothing
\* whatever records are stored
C13_NoTokensNoResults ==
    (resp.op = "search_memory" /\ NoLongRun(resp.q))
    => (resp.tokens = <<>> /\ resp.suggested = <<>>)

\* The query "ab c" searched over a store whose records contain "c"
C13_Witness ==
    /\ resp.op = "search_memory"
    /\ resp.q = <<97, 98, 32, 99>>
    /\ NoLongRun(resp.q)
    /\ Len(kitems) = 2
    /\ \A k \in 1..2 : Contains(kitems[k].content_text, <<99>>)
                       \/ Contains(kitems[k].content_text, <<107>>)
    /\ resp.suggested = <<>>

\* The first position of token t in the list
FirstIndex(list, t) ==
    CHOOSE i \in 1..Len(list) :
        list[i] = t /\ \A j \in 1..(i - 1) : list[j] # t

\* C14: the token list has no duplicates, keeps the tokens of the query and
\* then the boosts in the order of their first occurrence, has at most 10
\* entries, and holds no token shorter than 3 characters and no stop word
C14_TokensDistinctOrderedCapped ==
    resp.op = "tokenize"
    => LET tokens == resp.tokens
           all == Candidates(resp.q)
       IN  /\ Len(tokens) <= 10
           /\ \A i, j \in 1..Len(tokens) : i # j => tokens[i] # tokens[j]
           /\ \A i \in 1..Len(tokens) :
                  /\ Len(tokens[i]) >= 3
                  /\ tokens[i] \notin StopWords
                  /\ \E k \in 1..Len(all) : all[k] = tokens[i]
           /\ \A i, j \in 1..Len(tokens) :
                  i < j => FirstIndex(all, tokens[i])
                           < FirstIndex(all, tokens[j])
           /\ \A k \in 1..Len(all) :
                  (\E i \in 1..Len(tokens) :
                       FirstIndex(all, tokens[i]) > k)
                  => \E i \in 1..Len(tokens) : tokens[i] = all[k]

\* A query with a stop word, a repeated token and both triggers, whose
\* twelve distinct candidates are cut to ten
C14_Witness ==
    /\ resp.op = "tokenize"
    /\ resp.q = <<71, 67, 83, 32, 52, 48, 51, 32, 120, 121, 122, 95, 49, 32, 113, 49, 119>>
    /\ Len(Candidates(resp.q)) > 12
    /\ Len(resp.tokens) = 10
    /\ resp.tokens[1] = <<103, 99, 115>>

\* C15: the block returned by the context assembler, with its headers,
\* bodies and separators, is at most max_chars characters long
C15_BlockWithinBudget ==
    resp.op = "build_context_block" => Len(resp.block) <= resp.max_chars


\* C23: in the answer of every sync every scanned file is counted in exactly
\* one outcome, scanned_files = created + updated + unchanged + errors, and
\* errors is the number of entries of errors_detail
C23_ScannedFilesPartitioned ==
    (resp.op = "sync_local" /\ resp.status = 200)
    => /\ resp.scanned_files = resp.created + resp.updated + resp.unchanged
                               + resp.errors
       /\ resp.errors = Len(resp.errors_detail)


\* C22: once two chunk requests on the same item have both completed, however
\* their delete and insert commits interleaved, the item's stored chunks have
\* pairwise distinct chunk_index values and are the output of exactly one of
\* the two requests
C22_ConcurrentChunksNotDuplicated ==
    \A r1, r2 \in Reqs :
        (/\ r1 # r2
         /\ chunking[r1].pc = "done"
         /\ chunking[r2].pc = "done"
         /\ chunking[r1].item_id = chunking[r2].item_id)
        => LET stored == ChunksOf(kchunks, chunking[r1].item_id)
           IN  /\ \A i, j \in 1..Len(stored) :
                      i # j => stored[i].chunk_index # stored[j].chunk_index
               /\ \E r \in {r1, r2} :
                      /\ Len(stored) = Len(chunking[r].chunks)
                      /\ \A i \in 1..Len(stored) :
                             /\ stored[i].text = chunking[r].chunks[i]
                             /\ stored[i].chunk_index = i - 1


\* The stored chunks of every item are one generation: indexed 0, 1, 2, ...
\* in the order of their ids
OneGeneration ==
    \A item_id \in ItemIds :
        LET stored == ChunksOf(kchunks, item_id)
        IN  \A i \in 1..Len(stored) : stored[i].chunk_index = i - 1

\* The first commit of a request leaves its item without chunks, the second
\* finds it so and stores the request's chunks and nothing else, a crash in
\* between stores nothing, and no step turns chunks into other chunks
DeleteCommittedBeforeInsert ==
    LET r == resp'.req
        item_id == resp'.item_id
    IN  /\ resp'.op = "delete_chunks"
           => /\ ChunksOf(kchunks', item_id) = <<>>
              /\ chunking'[r].pc = "deleted"
              /\ chunking'[r].deleted = Len(ChunksOf(kchunks, item_id))
        /\ (resp'.op = "make_chunks" /\ resp'.status = 200)
           => /\ ChunksOf(kchunks, item_id) = <<>>
              /\ Len(ChunksOf(kchunks', item_id)) = Len(chunking[r].chunks)
              /\ \A i \in 1..Len(chunking[r].chunks) :
                     ChunksOf(kchunks', item_id)[i].text = chunking[r].chunks[i]
        /\ resp'.op = "crash"
           => /\ kchunks' = kchunks
              /\ ChunksOf(kchunks', item_id) = <<>>
        /\ \A other \in ItemIds :
               ChunksOf(kchunks', other) # ChunksOf(kchunks, other)
               => \/ ChunksOf(kchunks', other) = <<>>
                  \/ ChunksOf(kchunks, other) = <<>>

\* C21: chunk regeneration is not atomic. The deletion of the item's old
\* chunks is committed before any new chunk is inserted, so a request that
\* dies between the two commits leaves the item without chunks, and no state
\* holds a mix of old and new chunks of an item made by one request
C21_DeleteCommittedBeforeInsert ==
    []OneGeneration /\ [][DeleteCommittedBeforeInsert]_vars

\* A request died after it deleted the chunks of an item that has text: the
\* item had chunks and has none now
C21_Witness ==
    /\ resp.op = "crash"
    /\ chunking[resp.req].pc = "crashed"
    /\ chunking[resp.req].deleted > 0
    /\ chunking[resp.req].chunks # <<>>
    /\ kitems[FindItem(kitems, resp.item_id)].content_text # <<>>
    /\ ChunksOf(kchunks, resp.item_id) = <<>>

====
